---- MODULE Spec2Model ----
(***************************************************************************)
(* Model of the write transaction of apollo-cache-hermes:                   *)
(* src/operations/SnapshotEditor.ts (mergePayload / commit) over an         *)
(* immutable GraphSnapshot.                                                  *)
(*                                                                           *)
(* JavaScript object identity is modelled with explicit heaps:               *)
(*   objs : value objects (plain mappings / arrays), addressed 1..Len(objs)  *)
(*   recs : NodeSnapshot records {node, inbound, outbound}                   *)
(*   sets : Set<NodeId> objects (the editor's _editedNodeIds)                *)
(* A "slot" is a JavaScript value: undefined, null, a scalar or a            *)
(* reference to a cell of objs.                                              *)
(***************************************************************************)
EXTENDS Integers, Sequences, FiniteSets, TLC

VARIABLES objs, recs, sets, parent, newNodes, editedNodeIds, rebuiltNodeIds,
          result, pc, merges, written, deleted, lastOp, parentOp, ops

vars == <<objs, recs, sets, parent, newNodes, editedNodeIds, rebuiltNodeIds,
          result, pc, merges, written, deleted, lastOp, parentOp, ops>>

(***************************************************************************)
(* Bounds                                                                    *)
(***************************************************************************)
MaxMerges == 2

(***************************************************************************)
(* JavaScript values                                                         *)
(***************************************************************************)
Undef == [t |-> "u", s |-> "", a |-> 0]
Null == [t |-> "n", s |-> "", a |-> 0]
Scalar(x) == [t |-> "s", s |-> x, a |-> 0]
Ref(addr) == [t |-> "r", s |-> "", a |-> addr]

\* a node id is a sequence of strings; the empty sequence is `undefined`
NoId == <<>>
QueryRootId == <<"QueryRoot">>
RootSet == {QueryRootId}

IndexKeys == <<"0", "1", "2">>
IsIndex(k) == \E i \in 1..Len(IndexKeys) : IndexKeys[i] = k

EmptyFields == [k \in {} |-> Undef]
Put(f, k, v) == [x \in (DOMAIN f) \cup {k} |-> IF x = k THEN v ELSE f[x]]

EmptyObject == [arr |-> FALSE, len |-> 0, f |-> EmptyFields]
EmptyArray == [arr |-> TRUE, len |-> 0, f |-> EmptyFields]

\* obj[key] for a JavaScript value `slot`
GetKey(heap, slot, k) ==
  IF slot.t = "r" /\ k \in DOMAIN heap[slot.a].f THEN heap[slot.a].f[k] ELSE Undef

\* { ...value }: own enumerable properties copied into a fresh plain object
SpreadObject(heap, slot) ==
  IF slot.t = "r" THEN [arr |-> FALSE, len |-> 0, f |-> heap[slot.a].f] ELSE EmptyObject

\* [...array] / { ...object } keeping the container kind (copy-on-write clone)
ShallowClone(heap, slot) == heap[slot.a]

IndexOf(k) == CHOOSE i \in 1..Len(IndexKeys) : IndexKeys[i] = k

\* container[key] = value, in place
AssignKey(cell, k, v) ==
  [cell EXCEPT !.f = Put(cell.f, k, v),
               !.len = IF cell.arr /\ IsIndex(k) /\ IndexOf(k) > cell.len
                       THEN IndexOf(k) ELSE cell.len]

(***************************************************************************)
(* lazyImmutableDeepSet(target, original, path, value)                       *)
(* returns [heap, v]: the new heap and the root of the resulting tree.       *)
(***************************************************************************)
RECURSIVE lazyImmutableDeepSet(_, _, _, _, _)
lazyImmutableDeepSet(heap, target, original, path, value) ==
  IF path = <<>> THEN [heap |-> heap, v |-> value]
  ELSE
    LET key == Head(path)
        diverge == target.t # "r" \/ target = original
        fresh == IF target.t = "r" THEN ShallowClone(heap, original)
                 ELSE IF IsIndex(key) THEN EmptyArray ELSE EmptyObject
        StoreSub(sub, tgt) ==
          [heap |-> [sub.heap EXCEPT ![tgt.a] = AssignKey(@, key, sub.v)], v |-> tgt]
        Assign(heap1, tgt) ==
          IF Len(path) = 1
          THEN [heap |-> [heap1 EXCEPT ![tgt.a] = AssignKey(@, key, value)], v |-> tgt]
          ELSE StoreSub(lazyImmutableDeepSet(heap1, GetKey(heap1, tgt, key),
                                             GetKey(heap1, original, key), Tail(path), value),
                        tgt)
    IN Assign(IF diverge THEN Append(heap, fresh) ELSE heap,
              IF diverge THEN Ref(Len(heap) + 1) ELSE target)

(***************************************************************************)
(* NodeSnapshot and its edge lists                                           *)
(***************************************************************************)
NodeSnapshot(node, inbound, outbound) ==
  [node |-> node, inbound |-> inbound, outbound |-> outbound]

\* an edge {id, path}; def = FALSE is `path: undefined`
NodeReference(id, path, def) == [id |-> id, path |-> path, def |-> def]

RemoveAt(s, i) == SubSeq(s, 1, i - 1) \o SubSeq(s, i + 1, Len(s))

HasRef(list, ref) == \E i \in 1..Len(list) : list[i] = ref
FirstIndex(list, ref) == CHOOSE i \in 1..Len(list) :
                           list[i] = ref /\ \A j \in 1..(i - 1) : list[j] # ref

addNodeReference(list, ref) == Append(list, ref)
removeNodeReference(list, ref) ==
  IF HasRef(list, ref) THEN RemoveAt(list, FirstIndex(list, ref)) ELSE list
hasNodeReference(list, ref) == HasRef(list, ref)

(***************************************************************************)
(* Editor state threaded through one mergePayload call:                      *)
(*   heap, recs      the two heaps                                           *)
(*   newNodes        _newNodes: id -> address in recs, 0 is the tombstone    *)
(*   edited          _editedNodeIds, in insertion order                      *)
(*   rebuilt         _rebuiltNodeIds                                         *)
(*   queue, edits    the merge queue and the collected reference edits      *)
(*   written         history: ids whose own content an isEdit write changed  *)
(*   deleted         history: ids tombstoned by the orphan collection        *)
(*   log             history: every push on the rebuild queue and every      *)
(*                   tombstone of this call, in order                        *)
(***************************************************************************)
NoRecord == NodeSnapshot(Undef, <<>>, <<>>)

\* GraphSnapshot.getSnapshot(id) on the parent: address in recs, 0 if absent
ParentSnapshot(id) == IF id \in DOMAIN parent THEN parent[id] ELSE 0

\* SnapshotEditor.getSnapshot(id): address in recs, 0 if absent or deleted
getSnapshot(st, id) ==
  IF id \in DOMAIN st.newNodes THEN st.newNodes[id] ELSE ParentSnapshot(id)

\* SnapshotEditor.get(id)
get(st, id) ==
  LET r == getSnapshot(st, id) IN IF r = 0 THEN Undef ELSE st.recs[r].node

SetNew(nn, id, addr) == [x \in (DOMAIN nn) \cup {id} |-> IF x = id THEN addr ELSE nn[x]]

\* SnapshotEditor._ensureNewSnapshot(id): the state in which id is staged
\* variant: stages the parent's own record instead of a copy of it
MutEnsureNewSnapshot(st, id) ==
  IF id \in DOMAIN st.newNodes /\ st.newNodes[id] # 0 THEN st
  ELSE IF id \notin DOMAIN st.newNodes /\ ParentSnapshot(id) # 0
  THEN [st EXCEPT !.newNodes = SetNew(@, id, ParentSnapshot(id))]
  ELSE LET recs1 == Append(st.recs, NoRecord)
       IN [st EXCEPT !.recs = recs1, !.newNodes = SetNew(@, id, Len(recs1))]

ensureNewSnapshot(st, id) ==
  IF id \in DOMAIN st.newNodes /\ st.newNodes[id] # 0 THEN st
  ELSE IF id \in DOMAIN st.newNodes
  THEN LET recs1 == Append(st.recs, NoRecord)
       IN [st EXCEPT !.recs = recs1, !.newNodes = SetNew(@, id, Len(recs1))]
  ELSE LET p == ParentSnapshot(id)
           heap1 == Append(st.heap, IF p # 0 THEN SpreadObject(st.heap, st.recs[p].node)
                                    ELSE EmptyObject)
           recs1 == Append(st.recs,
                           NodeSnapshot(Ref(Len(heap1)),
                                        IF p # 0 THEN st.recs[p].inbound ELSE <<>>,
                                        IF p # 0 THEN st.recs[p].outbound ELSE <<>>))
       IN [st EXCEPT !.heap = heap1, !.recs = recs1,
                     !.newNodes = SetNew(@, id, Len(recs1))]

addToSet(seq, id) == IF \E i \in 1..Len(seq) : seq[i] = id THEN seq ELSE Append(seq, id)
RECURSIVE addAllToSet(_, _)
addAllToSet(seq, ids) ==
  IF ids = <<>> THEN seq ELSE addAllToSet(addToSet(seq, Head(ids)), Tail(ids))
SeqRemove(seq, id) == SelectSeq(seq, LAMBDA x : x # id)
Members(seq) == {seq[i] : i \in 1..Len(seq)}

(***************************************************************************)
(* config.entityIdForNode: the id of the entity a value object represents    *)
(***************************************************************************)
entityIdForNode(heap, slot) ==
  IF slot.t = "r" /\ GetKey(heap, slot, "id").t = "s"
  THEN <<GetKey(heap, slot, "id").s>> ELSE NoId

(***************************************************************************)
(* The content of a node's value, as a set of leaves.  A position that       *)
(* holds another entity's value is one leaf naming that entity: the content  *)
(* of a node does not include the content of the nodes it references.        *)
(***************************************************************************)
Leaf(path, t, s, id) == [p |-> path, t |-> t, s |-> s, id |-> id]

RECURSIVE ContentAt(_, _, _, _, _)
ContentAt(heap, slot, self, path, isRoot) ==
  IF slot.t # "r" THEN {Leaf(path, slot.t, slot.s, NoId)}
  ELSE LET eid == entityIdForNode(heap, slot)
       IN IF eid # NoId /\ (~isRoot \/ eid # self) THEN {Leaf(path, "ref", "", eid)}
          ELSE {Leaf(path, IF heap[slot.a].arr THEN "arr" ELSE "obj", "", NoId)}
               \cup UNION {ContentAt(heap, heap[slot.a].f[k], self, Append(path, k), FALSE)
                           : k \in DOMAIN heap[slot.a].f}

Content(heap, slot, self) == ContentAt(heap, slot, self, <<>>, TRUE)

(***************************************************************************)
(* SnapshotEditor._setValue(id, path, newValue, isEdit)                      *)
(***************************************************************************)
\* variant: writes the value but never reports the node as edited
MutSetValue(st, id, path, newValue, isEdit) ==
  LET Store(st1, ds, before) ==
        [st1 EXCEPT !.heap = ds.heap,
                    !.recs = [@ EXCEPT ![st1.newNodes[id]].node = ds.v],
                    !.written = IF isEdit /\ Content(ds.heap, ds.v, id) # before
                                THEN @ \cup {id} ELSE @]
      Write(st1, before) ==
        Store(st1,
              lazyImmutableDeepSet(st1.heap, st1.recs[st1.newNodes[id]].node,
                                   IF ParentSnapshot(id) # 0
                                   THEN st1.recs[ParentSnapshot(id)].node ELSE Undef,
                                   path, newValue),
              before)
  IN Write(ensureNewSnapshot(st, id), Content(st.heap, get(st, id), id))

setValue(st, id, path, newValue, isEdit) ==
  LET Store(st1, ds, before) ==
        [st1 EXCEPT !.heap = ds.heap,
                    !.recs = [@ EXCEPT ![st1.newNodes[id]].node = ds.v],
                    !.written = IF isEdit /\ Content(ds.heap, ds.v, id) # before
                                THEN @ \cup {id} ELSE @]
      Write(st1, before) ==
        Store(st1,
              lazyImmutableDeepSet(st1.heap, st1.recs[st1.newNodes[id]].node,
                                   IF ParentSnapshot(id) # 0
                                   THEN st1.recs[ParentSnapshot(id)].node ELSE Undef,
                                   path, newValue),
              before)
  IN Write(ensureNewSnapshot([st EXCEPT !.edited = IF isEdit THEN addToSet(@, id) ELSE @], id),
           Content(st.heap, get(st, id), id))

(***************************************************************************)
(* Payloads and edge maps.  A payload value is a tagged tree; an object      *)
(* keeps its keys in insertion order (kv is a sequence of <<key, value>>).   *)
(***************************************************************************)
PS(x) == [t |-> "s", s |-> x, kv |-> <<>>]
PNull == [t |-> "n", s |-> "", kv |-> <<>>]
PO(kv) == [t |-> "o", s |-> "", kv |-> kv]
PA(elems) == [t |-> "a", s |-> "",
              kv |-> [i \in 1..Len(elems) |-> <<IndexKeys[i], elems[i]>>]]

isObject(pv) == pv.t \in {"o", "a"}
isScalar(pv) == pv.t \in {"s", "n", "u"}
Falsy == {"", "0", "false"}
Truthy(pv) == isObject(pv) \/ (pv.t = "s" /\ pv.s \notin Falsy)
SlotTruthy(slot) == slot.t = "r" \/ (slot.t = "s" /\ slot.s \notin Falsy)
SlotOf(pv) == IF pv.t = "s" THEN Scalar(pv.s) ELSE IF pv.t = "n" THEN Null ELSE Undef

HasKey(kv, k) == \E i \in 1..Len(kv) : kv[i][1] = k
KeyValue(kv, k) == kv[CHOOSE i \in 1..Len(kv) : kv[i][1] = k][2]

\* config.entityIdForNode on a payload value
payloadEntityId(pv) ==
  IF pv.t = "o" /\ HasKey(pv.kv, "id") /\ KeyValue(pv.kv, "id").t = "s"
  THEN <<KeyValue(pv.kv, "id").s>> ELSE NoId

\* An edge map node: a ParameterizedEdge (param, with its static arguments)
\* or a nested map of the selection set.
EdgeMap(kv) == [param |-> FALSE, args |-> <<>>, kv |-> kv]
ParameterizedEdge(args) == [param |-> TRUE, args |-> args, kv |-> <<>>]
NoEdgeMap == EdgeMap(<<>>)
EdgeMapGet(em, k) == IF HasKey(em.kv, k) THEN KeyValue(em.kv, k) ELSE NoEdgeMap

\* A static argument is <<name, "lit", value>> or <<name, "var", variable>>.
expandEdgeArguments(edge, variables) ==
  [i \in 1..Len(edge.args) |->
     <<edge.args[i][1],
       IF edge.args[i][2] = "lit" THEN edge.args[i][3]
       ELSE IF edge.args[i][3] \in DOMAIN variables THEN variables[edge.args[i][3]]
       ELSE "null">>]

\* JSON.stringify of an argument mapping: its entries in insertion order
RECURSIVE JsonArgs(_)
JsonArgs(args) ==
  IF args = <<>> THEN <<>> ELSE <<Head(args)[1], ":", Head(args)[2]>> \o JsonArgs(Tail(args))

nodeIdForParameterizedValue(containerId, path, args) ==
  containerId \o <<"#", "[">> \o path \o <<"]", "#", "{">> \o JsonArgs(args) \o <<"}">>

MergeQueueItem(containerId, containerPayload, visitRoot) ==
  [containerId |-> containerId, containerPayload |-> containerPayload, visitRoot |-> visitRoot]

ReferenceEdit(containerId, path, prevNodeId, nextNodeId) ==
  [containerId |-> containerId, path |-> path,
   prevNodeId |-> prevNodeId, nextNodeId |-> nextNodeId]

\* Array.prototype.slice(0, n) of an array cell
SliceArray(cell, n) ==
  [arr |-> TRUE, len |-> IF cell.len < n THEN cell.len ELSE n,
   f |-> [k \in {x \in DOMAIN cell.f : IsIndex(x) /\ IndexOf(x) <= n} |-> cell.f[k]]]

IsArraySlot(heap, slot) == slot.t = "r" /\ heap[slot.a].arr

\* the edge list of the staged record of id, with one field replaced
WithOutbound(st, id, list) == [st EXCEPT !.recs[st.newNodes[id]].outbound = list]
WithInbound(st, id, list) == [st EXCEPT !.recs[st.newNodes[id]].inbound = list]
Staged(st, id) == st.recs[st.newNodes[id]]

(***************************************************************************)
(* The visitor of SnapshotEditor._mergePayloadValues: [st, skip]             *)
(***************************************************************************)
\* variant: records the edge on the container only
MutLinkParameterizedEdge(st1, containerId, edgeId) ==
  IF hasNodeReference(Staged(st1, containerId).outbound, NodeReference(edgeId, <<>>, FALSE))
  THEN st1
  ELSE ensureNewSnapshot(
         WithOutbound(st1, containerId,
                      addNodeReference(Staged(st1, containerId).outbound,
                                       NodeReference(edgeId, <<>>, FALSE))),
         edgeId)

\* variant: records the edge pair at every visit of the position
MutRelinkParameterizedEdge(st1, containerId, edgeId) ==
  LET AddInbound(b) ==
        WithInbound(b, edgeId, addNodeReference(Staged(b, edgeId).inbound,
                                                NodeReference(containerId, <<>>, FALSE)))
  IN AddInbound(
       ensureNewSnapshot(
         WithOutbound(st1, containerId,
                      addNodeReference(Staged(st1, containerId).outbound,
                                       NodeReference(edgeId, <<>>, FALSE))),
         edgeId))

\* lines 145-149, on the staged container: the edge to a parameterized value,
\* without a path, recorded on both sides unless the container has it
linkParameterizedEdge(st1, containerId, edgeId) ==
  LET AddInbound(b) ==
        WithInbound(b, edgeId, addNodeReference(Staged(b, edgeId).inbound,
                                                NodeReference(containerId, <<>>, FALSE)))
  IN IF hasNodeReference(Staged(st1, containerId).outbound,
                         NodeReference(edgeId, <<>>, FALSE))
     THEN st1
     ELSE AddInbound(
            ensureNewSnapshot(
              WithOutbound(st1, containerId,
                           addNodeReference(Staged(st1, containerId).outbound,
                                            NodeReference(edgeId, <<>>, FALSE))),
              edgeId))

\* lines 166-168: a truthy payload without an identity merges into the node
\* that is already at the position
\* variant: the payload's own identity is taken as it is
MutMergeIdentity(prevNodeId, nextNodeId, payloadValue) == nextNodeId

mergeIdentity(prevNodeId, nextNodeId, payloadValue) ==
  IF nextNodeId = NoId /\ Truthy(payloadValue) THEN prevNodeId ELSE nextNodeId

mergeVisitor(st, query, containerId, path, payloadValue, nodeValue, parameterizedEdge) ==
  LET nextId0 == IF isObject(payloadValue) THEN payloadEntityId(payloadValue) ELSE NoId
      prevNodeId == entityIdForNode(st.heap, nodeValue)
      \* lines 144-159
      VisitParameterized(edgeId) ==
        [st |-> [linkParameterizedEdge(ensureNewSnapshot(st, containerId), containerId, edgeId)
                   EXCEPT !.queue = Append(@, MergeQueueItem(edgeId, payloadValue, TRUE))],
         skip |-> TRUE]
      \* lines 173-187
      VisitReference(nextNodeId) ==
        [st |-> [st EXCEPT
                   !.edits = IF prevNodeId # nextNodeId
                             THEN Append(@, ReferenceEdit(containerId, path,
                                                          prevNodeId, nextNodeId))
                             ELSE @,
                   !.queue = IF nextNodeId # NoId
                             THEN Append(@, MergeQueueItem(nextNodeId, payloadValue, FALSE))
                             ELSE @],
         skip |-> TRUE]
  IN IF parameterizedEdge.param
     THEN VisitParameterized(
            nodeIdForParameterizedValue(containerId, path,
              expandEdgeArguments(parameterizedEdge, query.variables)))
     ELSE IF prevNodeId # NoId \/ nextId0 # NoId
     THEN VisitReference(mergeIdentity(prevNodeId, nextId0, payloadValue))
     ELSE IF payloadValue.t = "a"
     THEN IF SlotTruthy(nodeValue) /\ IsArraySlot(st.heap, nodeValue)
             /\ st.heap[nodeValue.a].len = Len(payloadValue.kv)
          THEN [st |-> st, skip |-> FALSE]
          ELSE [st |-> setValue([st EXCEPT !.heap =
                                   Append(@, IF IsArraySlot(st.heap, nodeValue)
                                             THEN SliceArray(st.heap[nodeValue.a],
                                                             Len(payloadValue.kv))
                                             ELSE EmptyArray)],
                                containerId, path, Ref(Len(st.heap) + 1), TRUE),
                skip |-> FALSE]
     ELSE IF isScalar(payloadValue) /\ SlotOf(payloadValue) # nodeValue
     THEN [st |-> setValue(st, containerId, path, SlotOf(payloadValue), TRUE), skip |-> FALSE]
     ELSE [st |-> st, skip |-> FALSE]

(***************************************************************************)
(* walkPayload: depth-first co-traversal of payload and node value.  The     *)
(* node values of the children are read when their parent is expanded.       *)
(***************************************************************************)
RECURSIVE walkNode(_, _, _, _, _, _, _, _, _)
RECURSIVE walkChildren(_, _, _, _, _, _, _, _, _)

walkNode(st, query, containerId, path, payload, node, edgeMap, depth, visitRoot) ==
  LET Descend(visited) ==
        IF visited.skip \/ ~isObject(payload) THEN visited.st
        ELSE walkChildren(visited.st, query, containerId, path, payload,
                          [i \in 1..Len(payload.kv) |->
                             GetKey(visited.st.heap, node, payload.kv[i][1])],
                          edgeMap, depth + 1, 1)
  IN Descend(IF depth > 0 \/ visitRoot
             THEN mergeVisitor(st, query, containerId, path, payload, node, edgeMap)
             ELSE [st |-> st, skip |-> FALSE])

walkChildren(st, query, containerId, path, payload, nodes, edgeMap, depth, i) ==
  IF i > Len(payload.kv) THEN st
  ELSE LET key == payload.kv[i][1]
           childMap == IF payload.t = "a" THEN edgeMap ELSE EdgeMapGet(edgeMap, key)
           st1 == walkNode(st, query, containerId, Append(path, key), payload.kv[i][2],
                           nodes[i], childMap, depth, FALSE)
       IN walkChildren(st1, query, containerId, path, payload, nodes, edgeMap, depth, i + 1)

walkPayload(st, query, containerId, payload, node, edgeMap, visitRoot) ==
  walkNode(st, query, containerId, <<>>, payload, node, edgeMap, 0, visitRoot)

(***************************************************************************)
(* SnapshotEditor._mergePayloadValues: the queue loop                        *)
(***************************************************************************)
RECURSIVE mergeQueue(_, _)
mergeQueue(st, query) ==
  IF st.queue = <<>> THEN st
  ELSE LET item == st.queue[Len(st.queue)]
           st1 == [st EXCEPT !.queue = SubSeq(@, 1, Len(@) - 1)]
           container == get(st1, item.containerId)
       IN mergeQueue(walkPayload(st1, query, item.containerId, item.containerPayload,
                                 container, query.edgeMap, item.visitRoot), query)

mergePayloadValues(st, query, fullPayload) ==
  mergeQueue([st EXCEPT !.queue = <<MergeQueueItem(query.rootId, fullPayload, FALSE)>>,
                        !.edits = <<>>], query)

(***************************************************************************)
(* SnapshotEditor._mergeReferenceEdits: [st, orphaned]                        *)
(***************************************************************************)
\* lines 228-230: drop the edge pair container -> prevNodeId
\* variant: drops the outbound edge and keeps the inbound edge of the old target
MutRemovePrevReference(st, edit) ==
  ensureNewSnapshot(
    WithOutbound(st, edit.containerId,
                 removeNodeReference(Staged(st, edit.containerId).outbound,
                                     NodeReference(edit.prevNodeId, edit.path, TRUE))),
    edit.prevNodeId)

removePrevReference(st, edit) ==
  LET RemoveInbound(b) ==
        WithInbound(b, edit.prevNodeId,
             removeNodeReference(Staged(b, edit.prevNodeId).inbound,
                                 NodeReference(edit.containerId, edit.path, TRUE)))
  IN RemoveInbound(
       ensureNewSnapshot(
         WithOutbound(st, edit.containerId,
             removeNodeReference(Staged(st, edit.containerId).outbound,
                                 NodeReference(edit.prevNodeId, edit.path, TRUE))),
         edit.prevNodeId))

\* lines 237-239: add the edge pair container -> nextNodeId
addNextReference(st, edit) ==
  LET AddInbound(b) ==
        WithInbound(b, edit.nextNodeId,
             addNodeReference(Staged(b, edit.nextNodeId).inbound,
                              NodeReference(edit.containerId, edit.path, TRUE)))
  IN AddInbound(
       ensureNewSnapshot(
         WithOutbound(st, edit.containerId,
             addNodeReference(Staged(st, edit.containerId).outbound,
                              NodeReference(edit.nextNodeId, edit.path, TRUE))),
         edit.nextNodeId))

\* lines 231-233: the previous target is orphaned when no inbound edge is left
\* variant: every previous target is flagged
MutFlagOrphan(st, orphaned, prevNodeId) == addToSet(orphaned, prevNodeId)

flagOrphan(st, orphaned, prevNodeId) ==
  IF Staged(st, prevNodeId).inbound = <<>> THEN addToSet(orphaned, prevNodeId) ELSE orphaned

\* line 240: a node that gains an inbound edge is no orphan
\* variant: the flag of an earlier edit stays
MutUnflagOrphan(orphaned, nextNodeId) == orphaned

unflagOrphan(orphaned, nextNodeId) == SeqRemove(orphaned, nextNodeId)

\* one iteration of the loop over referenceEdits
applyReferenceEdit(acc, edit) ==
  LET \* lines 236-241
      Added(st2, orphaned1) ==
        [st |-> IF edit.nextNodeId = NoId THEN st2 ELSE addNextReference(st2, edit),
         orphaned |-> IF edit.nextNodeId # NoId THEN unflagOrphan(orphaned1, edit.nextNodeId)
                      ELSE orphaned1]
      \* lines 231-233
      Flagged(st2) ==
        Added(st2, IF edit.prevNodeId # NoId
                   THEN flagOrphan(st2, acc.orphaned, edit.prevNodeId) ELSE acc.orphaned)
      \* lines 227-230
      Removed(st1) ==
        Flagged(IF edit.prevNodeId = NoId THEN st1 ELSE removePrevReference(st1, edit))
  IN Removed(ensureNewSnapshot(
               setValue(acc.st, edit.containerId, edit.path,
                        IF edit.nextNodeId # NoId THEN get(acc.st, edit.nextNodeId) ELSE Null,
                        TRUE),
               edit.containerId))

RECURSIVE applyReferenceEdits(_, _)
applyReferenceEdits(acc, edits) ==
  IF edits = <<>> THEN acc
  ELSE applyReferenceEdits(applyReferenceEdit(acc, Head(edits)), Tail(edits))

mergeReferenceEdits(st, referenceEdits) ==
  applyReferenceEdits([st |-> st, orphaned |-> <<>>], referenceEdits)

(***************************************************************************)
(* The same loop under the `strict` option: removeNodeReference raises when  *)
(* the list does not hold the edge it is asked to remove.  `raised` tells    *)
(* whether the call raised, `st` is the staged state it left behind.         *)
(***************************************************************************)
MissingReference(list, ref) == ~hasNodeReference(list, ref)

Completed(acc) == [st |-> acc.st, orphaned |-> acc.orphaned, raised |-> FALSE]

strictReferenceEdit(acc, edit) ==
  LET Raise(st1) == [st |-> st1, orphaned |-> acc.orphaned, raised |-> TRUE]
      \* line 230
      Inbound(st2) ==
        IF MissingReference(Staged(st2, edit.prevNodeId).inbound,
                            NodeReference(edit.containerId, edit.path, TRUE))
        THEN Raise(st2)
        ELSE Completed(applyReferenceEdit(acc, edit))
      \* lines 228-229
      Outbound(st1) ==
        IF edit.prevNodeId = NoId THEN Completed(applyReferenceEdit(acc, edit))
        ELSE IF MissingReference(Staged(st1, edit.containerId).outbound,
                                 NodeReference(edit.prevNodeId, edit.path, TRUE))
             THEN Raise(st1)
             ELSE Inbound(ensureNewSnapshot(
                    WithOutbound(st1, edit.containerId,
                        removeNodeReference(Staged(st1, edit.containerId).outbound,
                                            NodeReference(edit.prevNodeId, edit.path, TRUE))),
                    edit.prevNodeId))
  \* lines 223-225
  IN Outbound(ensureNewSnapshot(
                setValue(acc.st, edit.containerId, edit.path,
                         IF edit.nextNodeId # NoId THEN get(acc.st, edit.nextNodeId) ELSE Null,
                         TRUE),
                edit.containerId))

RECURSIVE strictReferenceEdits(_, _)
strictReferenceEdits(acc, edits) ==
  IF edits = <<>> \/ acc.raised THEN acc
  ELSE strictReferenceEdits(strictReferenceEdit(acc, Head(edits)), Tail(edits))

(***************************************************************************)
(* SnapshotEditor._rebuildInboundReferences                                  *)
(***************************************************************************)
\* line 262: point the holder's reference at the new version of the node
\* variant: republishing a holder counts as an edit of it
MutRepublish(st, id, path, node) == setValue(st, id, path, node, TRUE)

republish(st, id, path, node) == setValue(st, id, path, node, FALSE)

\* line 266: a holder that is put on the queue is remembered as rebuilt
\* variant: the holder is put on the queue without being remembered
MutMarkRebuilt(rebuilt, id) == rebuilt

markRebuilt(rebuilt, id) == rebuilt \cup {id}

RECURSIVE rebuildHolders(_, _, _, _)
\* the `for` loop over snapshot.inbound of nodeId; work is the queue
rebuildHolders(acc, nodeId, inbound, i) ==
  IF i > Len(inbound) THEN acc
  ELSE LET ref == inbound[i]
           Enqueue(st1) ==
             IF ref.id \in st1.rebuilt
             THEN rebuildHolders([acc EXCEPT !.st = st1], nodeId, inbound, i + 1)
             ELSE rebuildHolders([st |-> [st1 EXCEPT !.rebuilt = markRebuilt(@, ref.id),
                                                     !.log = Append(@, <<"rebuild", ref.id>>)],
                                  work |-> Append(acc.work, ref.id)],
                                 nodeId, inbound, i + 1)
       IN IF ~ref.def THEN rebuildHolders(acc, nodeId, inbound, i + 1)
          ELSE Enqueue(republish(acc.st, ref.id, ref.path,
                                 acc.st.recs[getSnapshot(acc.st, nodeId)].node))

RECURSIVE rebuildQueue(_)
rebuildQueue(acc) ==
  IF acc.work = <<>> THEN acc.st
  ELSE LET nodeId == acc.work[Len(acc.work)]
           rest == [acc EXCEPT !.work = SubSeq(@, 1, Len(@) - 1)]
           snapshot == getSnapshot(acc.st, nodeId)
       IN IF snapshot = 0 \/ acc.st.recs[snapshot].inbound = <<>> THEN rebuildQueue(rest)
          ELSE rebuildQueue(rebuildHolders(rest, nodeId, acc.st.recs[snapshot].inbound, 1))

\* variant: no holder is republished
MutRebuildInboundReferences(st) == st

rebuildInboundReferences(st) ==
  rebuildQueue([st |-> [st EXCEPT !.rebuilt = @ \cup Members(st.edited),
                                  !.log = @ \o [k \in 1..Len(st.edited) |->
                                                  <<"rebuild", st.edited[k]>>]],
                work |-> st.edited])

(***************************************************************************)
(* SnapshotEditor._removeOrphanedNodes                                       *)
(***************************************************************************)
RECURSIVE dropOutbound(_, _, _, _)
\* the `for` loop over node.outbound of the node being removed
dropOutbound(acc, nodeId, outbound, i) ==
  IF i > Len(outbound) THEN acc
  ELSE LET ref == outbound[i]
           Drop(st1, list) ==
             dropOutbound([st |-> WithInbound(st1, ref.id, list),
                           work |-> IF list = <<>> THEN Append(acc.work, ref.id)
                                    ELSE acc.work],
                          nodeId, outbound, i + 1)
           Remove(st1) ==
             Drop(st1, removeNodeReference(Staged(st1, ref.id).inbound,
                                           NodeReference(nodeId, ref.path, ref.def)))
       IN Remove(ensureNewSnapshot(acc.st, ref.id))

\* lines 281-282: drop the node and report the deletion
\* variant: drops the node without reporting it as edited
MutTombstone(st, nodeId) ==
  [st EXCEPT !.newNodes = SetNew(@, nodeId, 0),
             !.deleted = @ \cup {nodeId},
             !.log = Append(@, <<"tombstone", nodeId>>)]

tombstone(st, nodeId) ==
  [st EXCEPT !.newNodes = SetNew(@, nodeId, 0),
             !.edited = addToSet(@, nodeId),
             !.deleted = @ \cup {nodeId},
             !.log = Append(@, <<"tombstone", nodeId>>)]

RECURSIVE removeQueue(_)
removeQueue(acc) ==
  IF acc.work = <<>> THEN acc.st
  ELSE LET nodeId == acc.work[Len(acc.work)]
           rest == SubSeq(acc.work, 1, Len(acc.work) - 1)
           node == getSnapshot(acc.st, nodeId)
       IN IF node = 0 THEN removeQueue([acc EXCEPT !.work = rest])
          ELSE removeQueue(dropOutbound([st |-> tombstone(acc.st, nodeId), work |-> rest],
                                        nodeId, acc.st.recs[node].outbound, 1))

removeOrphanedNodes(st, nodeIds) == removeQueue([st |-> st, work |-> nodeIds])

(***************************************************************************)
(* SnapshotEditor.mergePayload(query, payload)                               *)
(***************************************************************************)
mergePayload(st, query, payload) ==
  LET \* lines 106-109
      Collect(merged) ==
        removeOrphanedNodes(rebuildInboundReferences(merged.st), merged.orphaned)
      \* line 100
      Edit(st1) == Collect(mergeReferenceEdits(st1, st1.edits))
  IN Edit(mergePayloadValues(st, query, payload))

\* mergePayload under `strict`: a raise in line 100 leaves lines 106-109 undone
strictMergePayload(st, query, payload) ==
  LET Collect(merged) ==
        IF merged.raised THEN [st |-> merged.st, raised |-> TRUE]
        ELSE [st |-> removeOrphanedNodes(rebuildInboundReferences(merged.st),
                                         merged.orphaned),
              raised |-> FALSE]
      Edit(st1) ==
        Collect(strictReferenceEdits([st |-> st1, orphaned |-> <<>>, raised |-> FALSE],
                                     st1.edits))
  IN Edit(mergePayloadValues(st, query, payload))

(***************************************************************************)
(* SnapshotEditor.commit(): the node map of the new GraphSnapshot            *)
(***************************************************************************)
\* variant: the new snapshot holds the staged nodes only
MutCommit(parentValues, staged) ==
  [id \in {x \in DOMAIN staged : staged[x] # 0} |-> staged[id]]

commit(parentValues, staged) ==
  [id \in {x \in (DOMAIN parentValues) \cup (DOMAIN staged) :
             x \notin DOMAIN staged \/ staged[x] # 0} |->
     IF id \in DOMAIN staged THEN staged[id] ELSE parentValues[id]]

(***************************************************************************)
(* Inputs: queries and the payloads merged with them                         *)
(***************************************************************************)
Query(rootId, edgeMap, variables) ==
  [rootId |-> rootId, edgeMap |-> edgeMap, variables |-> variables]

NoVariables == [v \in {} |-> ""]

\* { viewer { id name friend { id friend { id } } } other { id friend { id } } }
viewerQuery == Query(QueryRootId, NoEdgeMap, NoVariables)

\* query getAFoo($id: ID!) { foo(id: $id, withExtra: true) { id name extra } }
parameterizedQuery ==
  Query(QueryRootId,
        EdgeMap(<< <<"foo", ParameterizedEdge(<< <<"id", "var", "id">>,
                                                 <<"withExtra", "lit", "true">> >>)>> >>),
        [v \in {"id"} |-> "1"])

\* query getAFoo($id: ID!) { foo(withExtra: true, id: $id) { id name extra } }
reorderedQuery ==
  Query(QueryRootId,
        EdgeMap(<< <<"foo", ParameterizedEdge(<< <<"withExtra", "lit", "true">>,
                                                 <<"id", "var", "id">> >>)>> >>),
        [v \in {"id"} |-> "1"])

\* query nested($id: ID!) { one { two { three(id: $id, withExtra: true) { name extra } } } }
nestedQuery ==
  Query(QueryRootId,
        EdgeMap(<< <<"one", EdgeMap(<< <<"two", EdgeMap(<< <<"three",
            ParameterizedEdge(<< <<"id", "var", "id">>,
                                 <<"withExtra", "lit", "true">> >>)>> >>)>> >>)>> >>),
        [v \in {"id"} |-> "1"])

\* { list { item(extra: true) { five } } }
listQuery ==
  Query(QueryRootId,
        EdgeMap(<< <<"list", EdgeMap(<< <<"item",
            ParameterizedEdge(<< <<"extra", "lit", "true">> >>)>> >>)>> >>),
        NoVariables)

\* fragment on the entity "1": { name }
entityFragment == Query(<<"1">>, NoEdgeMap, NoVariables)

parameterizedId ==
  nodeIdForParameterizedValue(QueryRootId, <<"foo">>,
                              << <<"id", "1">>, <<"withExtra", "true">> >>)

Entity(id, rest) == PO(<< <<"id", PS(id)>> >> \o rest)
Input(query, payload) == [query |-> query, payload |-> payload]

Inputs == <<
  Input(viewerQuery, PO(<< <<"viewer", Entity("1", << <<"name", PS("Foo")>> >>)>> >>)),
  Input(viewerQuery, PO(<< <<"viewer", Entity("1", << <<"name", PS("Foo Bar")>> >>)>> >>)),
  Input(viewerQuery, PO(<< <<"viewer", Entity("2", << <<"name", PS("Bar")>> >>)>> >>)),
  Input(viewerQuery, PO(<< <<"viewer", PNull>> >>)),
  Input(viewerQuery, PO(<< <<"viewer", PO(<< <<"name", PS("Baz")>> >>)>> >>)),
  Input(viewerQuery,
        PO(<< <<"viewer", Entity("1", << <<"friend",
                Entity("2", << <<"friend", Entity("1", <<>>)>> >>)>> >>)>> >>)),
  Input(viewerQuery,
        PO(<< <<"viewer", Entity("1", << <<"friend", Entity("2", <<>>)>> >>)>>,
              <<"other", Entity("1", << <<"friend", Entity("3", <<>>)>> >>)>> >>)),
  Input(viewerQuery, PO(<< <<"viewer", Entity("1", << <<"friend", PNull>> >>)>> >>)),
  Input(parameterizedQuery, PO(<< <<"foo", PO(<< <<"name", PS("Foo")>> >>)>> >>)),
  Input(parameterizedQuery, PO(<< <<"foo", Entity("1", << <<"name", PS("Foo")>> >>)>> >>)),
  Input(parameterizedQuery, PO(<< <<"foo", Entity("1", << <<"name", PS("Foo Bar")>> >>)>> >>)),
  Input(parameterizedQuery, PO(<< <<"foo", PNull>> >>)),
  Input(entityFragment, PO(<< <<"name", PS("Foo Bar")>> >>)),
  \* 14, 15: two fields that exchange their entities
  Input(viewerQuery, PO(<< <<"viewer", Entity("1", <<>>)>>, <<"other", Entity("2", <<>>)>> >>)),
  Input(viewerQuery, PO(<< <<"viewer", Entity("2", <<>>)>>, <<"other", Entity("1", <<>>)>> >>)),
  \* 16: a field whose entity is the query root itself
  Input(viewerQuery, PO(<< <<"viewer", Entity("QueryRoot", <<>>)>> >>)),
  \* 17: the payload of 9 under the query that names the arguments in the other order
  Input(reorderedQuery, PO(<< <<"foo", PO(<< <<"name", PS("Foo")>> >>)>> >>)),
  \* 18, 19: an array as the value of a parameterized field, then its first element removed
  Input(parameterizedQuery,
        PO(<< <<"foo", PA(<< PO(<< <<"name", PS("Foo")>> >>),
                             PO(<< <<"name", PS("Bar")>> >>) >>)>> >>)),
  Input(parameterizedQuery,
        PO(<< <<"foo", PA(<< PNull, PO(<< <<"name", PS("Bar")>> >>) >>)>> >>)),
  \* 20, 21: an array of scalars, then a shorter one
  Input(viewerQuery, PO(<< <<"tags", PA(<< PS("a"), PS("b") >>)>> >>)),
  Input(viewerQuery, PO(<< <<"tags", PA(<< PS("b") >>)>> >>)),
  \* 22: a parameterized field below two plain fields
  Input(nestedQuery,
        PO(<< <<"one", PO(<< <<"two", PO(<< <<"three",
                PO(<< <<"name", PS("Foo")>> >>)>> >>)>> >>)>> >>)),
  \* 23: an array whose elements hold only a parameterized field
  Input(listQuery,
        PO(<< <<"list", PA(<< PO(<< <<"item", PO(<< <<"five", PS("1")>> >>)>> >>),
                              PO(<< <<"item", PO(<< <<"five", PS("2")>> >>)>> >>) >>)>> >>)),
  \* 24: the entity of 6 under two fields, with another friend
  Input(viewerQuery,
        PO(<< <<"viewer", Entity("1", << <<"friend", Entity("3", <<>>)>> >>)>>,
              <<"other", Entity("1", << <<"friend", Entity("3", <<>>)>> >>)>> >>)),
  \* 25: a chain of two entities
  Input(viewerQuery,
        PO(<< <<"viewer", Entity("1", << <<"friend", Entity("2", <<>>)>> >>)>> >>)),
  \* 26: the query root as the entity of one field, an entity at another
  Input(viewerQuery,
        PO(<< <<"viewer", Entity("QueryRoot", <<>>)>>, <<"other", Entity("2", <<>>)>> >>)),
  \* 27, 28: an array of two entities, then the array of the first of them
  Input(viewerQuery, PO(<< <<"friends", PA(<< Entity("1", <<>>), Entity("2", <<>>) >>)>> >>)),
  Input(viewerQuery, PO(<< <<"friends", PA(<< Entity("1", <<>>) >>)>> >>))
>>

\* the inputs of the two input suites
BaseInputs == 1..13
MoreInputs == {1, 4, 9, 25, 26} \cup (14..23)
StrictInputs == {1, 4, 6, 8, 14, 15, 24}
ListInputs == {1, 14, 27, 28}

(***************************************************************************)
(* The state machine                                                         *)
(***************************************************************************)
MaxEditors == 3

EmptySnapshot == [id \in {} |-> 0]

\* the editor state read from the variables
Editor ==
  [heap |-> objs, recs |-> recs, newNodes |-> newNodes, edited |-> sets[editedNodeIds],
   rebuilt |-> rebuiltNodeIds, queue |-> <<>>, edits |-> <<>>,
   written |-> written, deleted |-> deleted, log |-> <<>>]

\* what a reader sees of one node record: its value content and its edges
RecordView(heap, rec, id) ==
  [content |-> Content(heap, rec.node, id), inbound |-> rec.inbound, outbound |-> rec.outbound]

\* what a reader sees of the snapshot a commit of `st` would return
View(st) ==
  LET snapshot == commit(parent, st.newNodes)
  IN [nodes |-> [id \in DOMAIN snapshot |-> RecordView(st.heap, st.recs[snapshot[id]], id)],
      edited |-> Members(st.edited)]

Init ==
  /\ objs = <<>>
  /\ recs = <<>>
  /\ sets = << <<>> >>
  /\ parent = EmptySnapshot
  /\ newNodes = EmptySnapshot
  /\ editedNodeIds = 1
  /\ rebuiltNodeIds = {}
  /\ result = [valid |-> FALSE, snapshot |-> EmptySnapshot, editedNodeIds |-> 1]
  /\ pc = "open"
  /\ merges = 0
  /\ written = {}
  /\ deleted = {}
  /\ lastOp = [view |-> View(Editor), valid |-> FALSE]
  /\ parentOp = 0
  /\ ops = <<>>

\* editor.mergePayload(query, payload) with the i-th input
MergePayload(i) ==
  /\ merges < MaxMerges
  /\ Inputs[i].query.rootId \in RootSet \/ getSnapshot(Editor, Inputs[i].query.rootId) # 0
  /\ LET Store(st) ==
           /\ objs' = st.heap
           /\ recs' = st.recs
           /\ sets' = [sets EXCEPT ![editedNodeIds] = st.edited]
           /\ newNodes' = st.newNodes
           /\ rebuiltNodeIds' = st.rebuilt
           /\ written' = st.written
           /\ deleted' = st.deleted
     IN Store(mergePayload(Editor, Inputs[i].query, Inputs[i].payload))
  /\ lastOp' = [view |-> View(Editor), valid |-> TRUE]
  /\ ops' = Append(ops, i)
  /\ merges' = merges + 1
  /\ pc' = "open"
  /\ UNCHANGED <<parent, editedNodeIds, result, parentOp>>

\* editor.mergePayload(query, payload) with the i-th input, under `strict`;
\* the host makes no further merge on an editor whose merge raised
MergePayloadStrict(i) ==
  /\ pc # "raised"
  /\ merges < MaxMerges
  /\ Inputs[i].query.rootId \in RootSet \/ getSnapshot(Editor, Inputs[i].query.rootId) # 0
  /\ LET Store(r) ==
           /\ objs' = r.st.heap
           /\ recs' = r.st.recs
           /\ sets' = [sets EXCEPT ![editedNodeIds] = r.st.edited]
           /\ newNodes' = r.st.newNodes
           /\ rebuiltNodeIds' = r.st.rebuilt
           /\ written' = r.st.written
           /\ deleted' = r.st.deleted
           /\ pc' = IF r.raised THEN "raised" ELSE "open"
     IN Store(strictMergePayload(Editor, Inputs[i].query, Inputs[i].payload))
  /\ lastOp' = [view |-> View(Editor), valid |-> TRUE]
  /\ ops' = Append(ops, i)
  /\ merges' = merges + 1
  /\ UNCHANGED <<parent, editedNodeIds, result, parentOp>>

\* editor.commit(): nothing in it looks at how the last merge ended
Commit ==
  /\ pc \in {"open", "raised"}
  /\ result' = [valid |-> TRUE, snapshot |-> commit(parent, newNodes),
                editedNodeIds |-> editedNodeIds]
  /\ pc' = "committed"
  /\ UNCHANGED <<objs, recs, sets, parent, newNodes, editedNodeIds, rebuiltNodeIds,
                 merges, written, deleted, lastOp, parentOp, ops>>

\* new SnapshotEditor(config, snapshot) on the snapshot of the last commit
NewEditor ==
  /\ pc = "committed"
  /\ editedNodeIds < MaxEditors
  /\ parent' = result.snapshot
  /\ newNodes' = EmptySnapshot
  /\ sets' = Append(sets, <<>>)
  /\ editedNodeIds' = Len(sets) + 1
  /\ rebuiltNodeIds' = {}
  /\ written' = {}
  /\ deleted' = {}
  /\ ops' = <<>>
  /\ parentOp' = IF ops = <<>> THEN parentOp ELSE ops[Len(ops)]
  /\ lastOp' = [view |-> lastOp.view, valid |-> FALSE]
  /\ pc' = "open"
  /\ UNCHANGED <<objs, recs, result, merges>>

Next ==
  \/ \E i \in BaseInputs : MergePayload(i)
  \/ Commit
  \/ NewEditor

Spec == Init /\ [][Next]_vars

\* the same editor fed from the second suite of inputs
NextMore ==
  \/ \E i \in MoreInputs : MergePayload(i)
  \/ Commit
  \/ NewEditor

SpecMore == Init /\ [][NextMore]_vars

\* the editor of a cache configured with `strict`
NextStrict ==
  \/ \E i \in StrictInputs : MergePayloadStrict(i)
  \/ Commit
  \/ NewEditor

SpecStrict == Init /\ [][NextStrict]_vars

\* the same editor fed with arrays of entities
NextList ==
  \/ \E i \in ListInputs : MergePayload(i)
  \/ Commit
  \/ NewEditor

SpecList == Init /\ [][NextList]_vars

(***************************************************************************)
(* Reading a committed snapshot                                              *)
(***************************************************************************)
Committed == pc = "committed"
Snapshot == result.snapshot
Record(id) == recs[Snapshot[id]]
ParentRecord(id) == recs[parent[id]]
EditedSet == Members(sets[result.editedNodeIds])

Count(list, ref) == Cardinality({i \in 1..Len(list) : list[i] = ref})

\* the addresses of the value objects reachable from a slot
RECURSIVE ReachCells(_, _, _)
ReachCells(heap, frontier, seen) ==
  IF frontier = {} THEN seen
  ELSE LET a == CHOOSE x \in frontier : TRUE
           kids == {heap[a].f[k].a : k \in {x \in DOMAIN heap[a].f : heap[a].f[x].t = "r"}}
       IN ReachCells(heap, (frontier \cup kids) \ (seen \cup {a}), seen \cup {a})

Cells(heap, slot) == IF slot.t = "r" THEN ReachCells(heap, {slot.a}, {}) ELSE {}

\* the ids reachable from the root set by following outbound edges
RECURSIVE ReachIds(_, _, _)
ReachIds(snapshot, frontier, seen) ==
  IF frontier = {} THEN seen
  ELSE LET h == CHOOSE x \in frontier : TRUE
           out == recs[snapshot[h]].outbound
           kids == {out[i].id : i \in 1..Len(out)} \cap DOMAIN snapshot
       IN ReachIds(snapshot, (frontier \cup kids) \ (seen \cup {h}), seen \cup {h})

ReachableIds(snapshot) == ReachIds(snapshot, RootSet \cap DOMAIN snapshot, {})

Symmetric(snapshot) ==
  \A h \in DOMAIN snapshot :
    /\ \A i \in 1..Len(recs[snapshot[h]].outbound) :
         LET e == recs[snapshot[h]].outbound[i]
         IN /\ e.id \in DOMAIN snapshot
            /\ Count(recs[snapshot[h]].outbound, e)
               = Count(recs[snapshot[e.id]].inbound, NodeReference(h, e.path, e.def))
    /\ \A i \in 1..Len(recs[snapshot[h]].inbound) :
         LET e == recs[snapshot[h]].inbound[i]
         IN /\ e.id \in DOMAIN snapshot
            /\ Count(recs[snapshot[h]].inbound, e)
               = Count(recs[snapshot[e.id]].outbound, NodeReference(h, e.path, e.def))

C2_EdgesSymmetric == Committed => Symmetric(Snapshot)

\* a commit after an edge pair was removed and a node collected, edges remaining
C2_Witness ==
  /\ Committed
  /\ deleted # {}
  /\ \E h \in DOMAIN Snapshot : Record(h).outbound # <<>>

(***************************************************************************)
(* C3: in every committed snapshot every node is reachable from the root     *)
(* set by following outbound edges.                                          *)
(***************************************************************************)
C3_AllReachable == Committed => \A id \in DOMAIN Snapshot : id \in ReachableIds(Snapshot)

(***************************************************************************)
(* C5: a node that the transaction never staged keeps the record of the      *)
(* parent snapshot (the same object) in the committed snapshot and is not    *)
(* in editedNodeIds.                                                         *)
(***************************************************************************)
C5_UnvisitedShared ==
  Committed =>
    /\ \A n \in (DOMAIN parent) \ (DOMAIN newNodes) :
         n \in DOMAIN Snapshot /\ Snapshot[n] = parent[n] /\ n \notin EditedSet
    /\ \A n \in (DOMAIN Snapshot) \ (DOMAIN newNodes) : n \in DOMAIN parent
    /\ EditedSet \subseteq DOMAIN newNodes

\* a commit of a transaction that staged some nodes and left another alone
C5_Witness ==
  /\ Committed
  /\ newNodes # EmptySnapshot
  /\ (DOMAIN parent) \ (DOMAIN newNodes) # {}

(***************************************************************************)
(* Deep comparison of JavaScript values: the leaves of a value tree down to  *)
(* MaxDepth steps, following references into other nodes' values.            *)
(***************************************************************************)
MaxDepth == 3

RECURSIVE DeepAt(_, _, _)
DeepAt(heap, slot, path) ==
  IF slot.t # "r" THEN {Leaf(path, slot.t, slot.s, NoId)}
  ELSE IF Len(path) >= MaxDepth THEN {Leaf(path, "cut", "", NoId)}
  ELSE {Leaf(path, IF heap[slot.a].arr THEN "arr" ELSE "obj", "", NoId)}
       \cup UNION {DeepAt(heap, heap[slot.a].f[k], Append(path, k))
                   : k \in DOMAIN heap[slot.a].f}

DeepEquals(heap, x, y) == DeepAt(heap, x, <<>>) = DeepAt(heap, y, <<>>)

\* the value found at `path` inside a value
RECURSIVE SlotAt(_, _, _)
SlotAt(heap, slot, path) ==
  IF path = <<>> THEN slot ELSE SlotAt(heap, GetKey(heap, slot, Head(path)), Tail(path))

(***************************************************************************)
(* C4: after commit, the value found at the path of every outbound edge      *)
(* with a defined path deep-equals the value of the edge's target, and is    *)
(* the same object as the target's value when the holder was staged by the   *)
(* transaction.                                                              *)
(***************************************************************************)
C4_NormalizedReferences ==
  Committed =>
    \A h \in DOMAIN Snapshot :
      \A i \in 1..Len(Record(h).outbound) :
        LET e == Record(h).outbound[i]
            v == SlotAt(objs, Record(h).node, e.path)
        IN e.def =>
             /\ e.id \in DOMAIN Snapshot
             /\ DeepEquals(objs, v, Record(e.id).node)
             /\ h \in DOMAIN newNodes => v = Record(e.id).node

(***************************************************************************)
(* Holders in the parent snapshot                                            *)
(***************************************************************************)
\* the targets of the outbound edges of h in the parent; onlyPaths keeps the
\* edges with a defined path
ParentTargets(h, onlyPaths) ==
  LET out == ParentRecord(h).outbound
  IN {out[i].id : i \in {j \in 1..Len(out) : out[j].def \/ ~onlyPaths}} \cap DOMAIN parent

RECURSIVE ParentReach(_, _, _)
ParentReach(frontier, seen, onlyPaths) ==
  IF frontier = {} THEN seen
  ELSE LET h == CHOOSE x \in frontier : TRUE
       IN ParentReach((frontier \cup ParentTargets(h, onlyPaths)) \ (seen \cup {h}),
                      seen \cup {h}, onlyPaths)

\* the nodes h referenced in the parent, through one edge or more
Referenced(h, onlyPaths) == ParentReach(ParentTargets(h, onlyPaths), {}, onlyPaths)

\* the value content of t differs between the parent and the committed snapshot
ContentChanged(t) ==
  /\ t \in (DOMAIN parent) \cap (DOMAIN Snapshot)
  /\ Content(objs, Record(t).node, t) # Content(objs, ParentRecord(t).node, t)

(***************************************************************************)
(* C6 as stated: a holder that referenced a changed node through any chain   *)
(* of outbound edges, parameterized edges included, has a new value object   *)
(* in the committed snapshot.                                                *)
(***************************************************************************)
C6_AnyEdgeRepublished ==
  Committed =>
    \A h \in (DOMAIN parent) \cap (DOMAIN Snapshot) :
      (\E t \in Referenced(h, FALSE) : ContentChanged(t))
        => Record(h).node # ParentRecord(h).node

(***************************************************************************)
(* C6 amended: a holder that referenced a changed node through a chain of    *)
(* outbound edges that all have a defined path has a new value object in     *)
(* the committed snapshot.                                                   *)
(***************************************************************************)
C6_PathEdgeRepublished ==
  Committed =>
    \A h \in (DOMAIN parent) \cap (DOMAIN Snapshot) :
      (\E t \in Referenced(h, TRUE) : ContentChanged(t))
        => Record(h).node # ParentRecord(h).node

\* a commit that republished a holder which the transaction did not edit
C6_Witness ==
  /\ Committed
  /\ \E h \in (DOMAIN parent) \cap (DOMAIN Snapshot) :
       /\ h \notin EditedSet
       /\ \E t \in Referenced(h, TRUE) : ContentChanged(t)
       /\ Record(h).node # ParentRecord(h).node

(***************************************************************************)
(* C7: a transaction that merges one payload identical to the state of its   *)
(* parent (the payload whose merge produced the parent) commits an empty     *)
(* editedNodeIds and a snapshot holding the parent's node records.           *)
(***************************************************************************)
\* the i-th input states each entity once, so the state it produces agrees
\* with every position of its payload
SelfConsistent(i) == i # 7

MergedParentPayload ==
  Len(ops) = 1 /\ ops[1] = parentOp /\ SelfConsistent(parentOp)

C7_IdenticalPayloadNoop ==
  (Committed /\ MergedParentPayload) => (EditedSet = {} /\ Snapshot = parent)

(***************************************************************************)
(* C8: merging the same (query, payload) twice in a row gives the snapshot   *)
(* (node ids, value contents, inbound and outbound edges) and the            *)
(* editedNodeIds that merging it once gave.                                  *)
(***************************************************************************)
\* the latest merge repeated the input of the merge before it
RepeatedMerge == Len(ops) >= 2 /\ ops[Len(ops)] = ops[Len(ops) - 1]

C8_MergeIdempotent == RepeatedMerge => View(Editor) = lastOp.view

(***************************************************************************)
(* What the edges of a node leave of its value: the scalars that lie under   *)
(* no path of an outbound edge (of the parent's or of the committed record)  *)
(***************************************************************************)
IsPrefix(p, q) == Len(p) <= Len(q) /\ SubSeq(q, 1, Len(p)) = p

PathEdges(rec) == {rec.outbound[i] : i \in {j \in 1..Len(rec.outbound) : rec.outbound[j].def}}

ParentEdges(n) == IF n \in DOMAIN parent THEN PathEdges(ParentRecord(n)) ELSE {}
ParentEdgeList(n) ==
  IF n \in DOMAIN parent THEN SelectSeq(ParentRecord(n).outbound, LAMBDA e : e.def) ELSE <<>>
EdgeList(n) == SelectSeq(Record(n).outbound, LAMBDA e : e.def)

OwnScalars(leaves, edges) ==
  {l \in leaves : l.t \in {"s", "n"} /\ \A e \in edges : ~IsPrefix(e.path, l.p)}

ScalarsChanged(n) ==
  LET edges == ParentEdges(n) \cup PathEdges(Record(n))
  IN OwnScalars(Content(objs, Record(n).node, n), edges)
     # OwnScalars(IF n \in DOMAIN parent THEN Content(objs, ParentRecord(n).node, n) ELSE {},
                  edges)

DeletedIds == ((DOMAIN parent) \ (DOMAIN Snapshot)) \cup deleted

(***************************************************************************)
(* C9 as stated: editedNodeIds contains every node whose committed value is  *)
(* a different object from its value in the parent, and every deleted node.  *)
(***************************************************************************)
C9_IdentityEdited ==
  Committed =>
    /\ \A n \in (DOMAIN parent) \cap (DOMAIN Snapshot) :
         Record(n).node # ParentRecord(n).node => n \in EditedSet
    /\ DeletedIds \subseteq EditedSet

(***************************************************************************)
(* C9 amended: editedNodeIds contains every deleted node, every node whose   *)
(* outbound edges with a defined path changed and every node with a scalar   *)
(* value, outside the paths of those edges, that differs from the parent.    *)
(***************************************************************************)
C9_ContentEdited ==
  Committed =>
    /\ \A n \in DOMAIN Snapshot :
         (ScalarsChanged(n) \/ EdgeList(n) # ParentEdgeList(n)) => n \in EditedSet
    /\ DeletedIds \subseteq EditedSet

\* a commit that deleted a node of the parent and wrote scalars of another
C9_Witness ==
  /\ Committed
  /\ (DOMAIN parent) \ (DOMAIN Snapshot) # {}
  /\ \E n \in DOMAIN Snapshot : ScalarsChanged(n)

(***************************************************************************)
(* C10: a node is in editedNodeIds only if a write of the merge walk or of   *)
(* a reference edit changed its own value content, or it was deleted; a      *)
(* holder that is only republished, or a container that only gains a         *)
(* parameterized edge, is not in it.                                         *)
(***************************************************************************)
C10_EditedOnlyIfChanged == Members(sets[editedNodeIds]) \subseteq written \cup deleted

\* a commit that republished a holder, which also gained a parameterized
\* edge, without editing it
C10_Witness ==
  /\ Committed
  /\ \E h \in (DOMAIN parent) \cap (DOMAIN Snapshot) :
       /\ h \in rebuiltNodeIds
       /\ h \notin EditedSet
       /\ Record(h).node # ParentRecord(h).node
       /\ \E i \in 1..Len(Record(h).outbound) :
            ~Record(h).outbound[i].def /\ ~HasRef(ParentRecord(h).outbound, Record(h).outbound[i])
  /\ EditedSet # {}

(***************************************************************************)
(* The id of a parameterized value names its container and its path          *)
(***************************************************************************)
LastIndexOf(id, tok) == CHOOSE i \in 1..Len(id) : id[i] = tok /\ \A j \in (i + 1)..Len(id) : id[j] # tok
IsParameterizedId(id) == \E i \in 1..Len(id) : id[i] = "["
ContainerOf(id) == SubSeq(id, 1, LastIndexOf(id, "[") - 2)
PathOf(id) == SubSeq(id, LastIndexOf(id, "[") + 1, LastIndexOf(id, "]") - 1)

\* the snapshot a commit of the editor would return now
Current == commit(parent, newNodes)

ResultNodes(res, heap, rs) ==
  [id \in DOMAIN res.snapshot |-> RecordView(heap, rs[res.snapshot[id]], id)]

\* C12: when mergePayload raised part-way, a later commit on that editor
\* returns nothing of what the raising merge had staged: its snapshot reads
\* as the one a commit before that merge would have returned
C12_NoPartialCommit ==
  [][(pc = "raised" /\ pc' = "committed")
       => ResultNodes(result', objs', recs') = lastOp.view.nodes]_vars

(***************************************************************************)
(* C13: the id of a parameterized value and the order of the argument keys   *)
(***************************************************************************)
\* the arguments the i-th input gives to its top-level field foo, as passed
\* to nodeIdForParameterizedValue in line 142
FooArgs(i) ==
  expandEdgeArguments(EdgeMapGet(Inputs[i].query.edgeMap, "foo"), Inputs[i].query.variables)

HasFooArgs(i) == EdgeMapGet(Inputs[i].query.edgeMap, "foo").param

\* an argument object as a mapping: its keys with their values
ArgMapping(args) == {<<args[k][1], args[k][2]>> : k \in 1..Len(args)}

\* the merges made on this editor
Merged == {ops[k] : k \in 1..Len(ops)}

\* C13: two argument mappings with the same keys and values get the same id
\* from nodeIdForParameterizedValue, whatever the insertion order of the keys
C13_IdIgnoresKeyOrder ==
  \A i, j \in Merged :
    (HasFooArgs(i) /\ HasFooArgs(j) /\ ArgMapping(FooArgs(i)) = ArgMapping(FooArgs(j)))
      => nodeIdForParameterizedValue(QueryRootId, <<"foo">>, FooArgs(i))
           = nodeIdForParameterizedValue(QueryRootId, <<"foo">>, FooArgs(j))

(***************************************************************************)
(* C14: merging is partial                                                   *)
(***************************************************************************)
\* the entity that the node id referenced at path before the last merge
PrevNodeId(id, path) ==
  IF id \in DOMAIN lastOp.view.nodes
     /\ \E l \in lastOp.view.nodes[id].content : l.p = path /\ l.t = "ref"
  THEN (CHOOSE l \in lastOp.view.nodes[id].content : l.p = path /\ l.t = "ref").id
  ELSE NoId

\* the positions of a payload, each as <<node, path inside the node, kind,
\* scalar>>: a value with an entity id is that entity's node, an object
\* without one at a position that referenced an entity is that entity's node
\* (lines 166-168), the value of a parameterized field is the node of that
\* field, anything else belongs to the node that contains it
RECURSIVE PayloadPositions(_, _, _, _, _)
PayloadPositions(id, path, em, pv, variables) ==
  {<<id, path, pv.t, pv.s>>} \cup
  IF ~isObject(pv) THEN {}
  ELSE UNION {
    LET NextNodeId(v, holder, at) ==
          IF payloadEntityId(v) # NoId THEN payloadEntityId(v)
          ELSE IF isObject(v) THEN PrevNodeId(holder, at) ELSE NoId
        InNode(node, v, edge) ==
          IF NextNodeId(v, node, <<>>) # NoId
          THEN {<<node, <<>>, "ref", "">>}
               \cup PayloadPositions(NextNodeId(v, node, <<>>), <<>>, EdgeMap(edge.kv),
                                     v, variables)
          ELSE PayloadPositions(node, <<>>, EdgeMap(edge.kv), v, variables)
        Below(k, v, edge) ==
          IF edge.param
          THEN {<<id, Append(path, k), "param", "">>} \cup
               InNode(nodeIdForParameterizedValue(id, Append(path, k),
                                                  expandEdgeArguments(edge, variables)),
                      v, edge)
          ELSE IF NextNodeId(v, id, Append(path, k)) # NoId
          THEN {<<id, Append(path, k), "ref", "">>}
               \cup PayloadPositions(NextNodeId(v, id, Append(path, k)), <<>>,
                                     EdgeMap(edge.kv), v, variables)
          ELSE PayloadPositions(id, Append(path, k), edge, v, variables)
    IN Below(pv.kv[i][1], pv.kv[i][2],
             IF pv.t = "a" THEN em ELSE EdgeMapGet(em, pv.kv[i][1]))
    : i \in 1..Len(pv.kv)}

\* the positions of the payload of the last merge
LastPositions ==
  IF ops = <<>> THEN {}
  ELSE PayloadPositions(Inputs[ops[Len(ops)]].query.rootId, <<>>,
                        Inputs[ops[Len(ops)]].query.edgeMap,
                        Inputs[ops[Len(ops)]].payload,
                        Inputs[ops[Len(ops)]].query.variables)

\* the fields of the node id that the payload of the last merge mentions
MentionedFields(id) == {pos[2][1] : pos \in {q \in LastPositions : q[1] = id /\ q[2] # <<>>}}

\* the payload of the last merge gives the node id a value of the kind (object
\* or array) that the node had before the merge
SameKind(id) ==
  \A pos \in LastPositions :
    (pos[1] = id /\ pos[2] = <<>>)
      => /\ pos[3] \in {"o", "a"}
         /\ Leaf(<<>>, IF pos[3] = "a" THEN "obj" ELSE "arr", "", NoId)
              \notin lastOp.view.nodes[id].content

\* the nodes the last merge merged into and that existed before it
MergedInto ==
  {id \in {pos[1] : pos \in LastPositions} \cap (DOMAIN lastOp.view.nodes) : SameKind(id)}

\* C14: after the merge of a payload that does not contradict itself into an
\* existing node, every scalar field of the payload has the payload's value in
\* the node, and every field of the node that the payload does not mention
\* reads as it did before the merge
C14_MergeIsPartial ==
  (lastOp.valid /\ pc # "raised" /\ SelfConsistent(ops[Len(ops)])) =>
    \A id \in MergedInto :
      /\ id \in DOMAIN Current
      /\ \A pos \in LastPositions :
           (pos[1] = id /\ pos[3] = "s")
             => SlotAt(objs, recs[Current[id]].node, pos[2]) = Scalar(pos[4])
      /\ \A l \in lastOp.view.nodes[id].content :
           (l.p # <<>> /\ l.p[1] \notin MentionedFields(id))
             => l \in Content(objs, recs[Current[id]].node, id)

\* a merge gave an existing node a new scalar and left another of its fields alone
C14_Witness ==
  /\ lastOp.valid
  /\ Committed
  /\ \E id \in MergedInto \cap (DOMAIN Current) :
       /\ \E pos \in LastPositions :
            /\ pos[1] = id /\ pos[3] = "s" /\ Len(pos[2]) = 1
            /\ Leaf(pos[2], "s", pos[4], NoId) \notin lastOp.view.nodes[id].content
       /\ \E l \in lastOp.view.nodes[id].content :
            l.p # <<>> /\ l.p[1] \notin MentionedFields(id)

(***************************************************************************)
(* C15: an entity as the payload of a parameterized field                    *)
(***************************************************************************)
\* the last merge gave the field foo(id: 1, withExtra: true) the entity "1"
EntityAtParameterized ==
  /\ lastOp.valid
  /\ ops # <<>>
  /\ ops[Len(ops)] \in {10, 11}

\* C15: when the payload at a parameterized position is the entity e, the
\* merge creates e, the parameterized node has exactly the outbound edge
\* {e, []} and e its inbound edge {paramId, []}, the parameterized node's
\* value is the same object as e's value, and exactly the two nodes are
\* edited when both are new
C15_EntityAtParameterized ==
  EntityAtParameterized =>
    /\ <<"1">> \in DOMAIN Current
    /\ parameterizedId \in DOMAIN Current
    /\ recs[Current[parameterizedId]].outbound = <<NodeReference(<<"1">>, <<>>, TRUE)>>
    /\ Count(recs[Current[<<"1">>]].inbound, NodeReference(parameterizedId, <<>>, TRUE)) = 1
    /\ recs[Current[parameterizedId]].node = recs[Current[<<"1">>]].node
    /\ ({<<"1">>, parameterizedId} \cap (DOMAIN lastOp.view.nodes) = {} /\ Len(ops) = 1)
         => Members(sets[editedNodeIds]) = {<<"1">>, parameterizedId}

(***************************************************************************)
(* C16: the length of a merged array                                         *)
(***************************************************************************)
\* the number of elements of the array the last payload has at path of id
PayloadLength(id, path) ==
  Cardinality({q \in LastPositions :
                 /\ q[1] = id
                 /\ Len(q[2]) = Len(path) + 1
                 /\ SubSeq(q[2], 1, Len(path)) = path})

\* the value at path of the node id, in the snapshot a commit would return
CurrentAt(id, path) == SlotAt(objs, recs[Current[id]].node, path)

\* C16: after the merge of an array payload of length n at a position, the
\* value at that position is an array of exactly length n, and an element the
\* payload gives as null reads as null
C16_ArrayLength ==
  (lastOp.valid /\ pc # "raised") =>
    \A pos \in LastPositions :
      /\ pos[3] = "a" =>
           /\ pos[1] \in DOMAIN Current
           /\ IsArraySlot(objs, CurrentAt(pos[1], pos[2]))
           /\ objs[CurrentAt(pos[1], pos[2]).a].len = PayloadLength(pos[1], pos[2])
      /\ (pos[3] = "n" /\ pos[2] # <<>> /\ IsIndex(pos[2][Len(pos[2])]))
           => CurrentAt(pos[1], pos[2]) = Null

(***************************************************************************)
(* C17: nodes without inbound edges                                          *)
(***************************************************************************)
\* the nodes of the parent snapshot and of this transaction that a commit
\* would not return
Absent == (((DOMAIN parent) \cup (DOMAIN newNodes)) \ (DOMAIN Current)) \cup deleted

BeforeCollection(i) ==
  LET Rebuild(merged) == rebuildInboundReferences(merged.st)
      Apply(st1) == Rebuild(mergeReferenceEdits(st1, st1.edits))
  IN Apply(mergePayloadValues(Editor, Inputs[i].query, Inputs[i].payload))

\* the value `node` of t in `heap` reads as the value of t did in the editor b
Intact(b, t, heap, node) ==
  /\ getSnapshot(b, t) # 0
  /\ Content(heap, node, t) = Content(b.heap, b.recs[getSnapshot(b, t)].node, t)

\* C18: the orphan collection of a merge deletes no node that is still
\* referenced: a node that a surviving node references after the merge is in
\* the snapshot a commit returns, holds the matching inbound edge, and its
\* value reads as it did before the collection
C18_ReferencedKept ==
  [][(Len(ops') = Len(ops) + 1) =>
       LET Kept(b) ==
             \A h \in DOMAIN Current' :
               \A k \in 1..Len(recs'[Current'[h]].outbound) :
                 LET e == recs'[Current'[h]].outbound[k]
                 IN /\ e.id \in DOMAIN Current'
                    /\ NodeReference(h, e.path, e.def)
                         \in {recs'[Current'[e.id]].inbound[j] :
                                j \in 1..Len(recs'[Current'[e.id]].inbound)}
                    /\ Intact(b, e.id, objs', recs'[Current'[e.id]].node)
       IN Kept(BeforeCollection(ops'[Len(ops')]))]_vars

\* a merge took one of two inbound edges from a node and removed another node
C18_Witness ==
  /\ lastOp.valid
  /\ Committed
  /\ deleted # {}
  /\ \E t \in (DOMAIN lastOp.view.nodes) \cap (DOMAIN Current) :
       /\ Len(lastOp.view.nodes[t].inbound) = 2
       /\ Len(recs[Current[t]].inbound) = 1

(***************************************************************************)
(* C19: an orphan that is referenced again in the same merge                 *)
(***************************************************************************)
\* line 93: the reference edits that the merge of the i-th input collects
ReferenceEditsOf(i) == mergePayloadValues(Editor, Inputs[i].query, Inputs[i].payload).edits

\* line 100: the orphan set after the reference edits of the i-th input
OrphanedBy(i) ==
  LET Apply(st1) == mergeReferenceEdits(st1, st1.edits).orphaned
  IN Members(Apply(mergePayloadValues(Editor, Inputs[i].query, Inputs[i].payload)))

\* the edits take every inbound edge the node n has, and another edit gives
\* it one
LosesAndGains(edits, n) ==
  /\ getSnapshot(Editor, n) # 0
  /\ recs[getSnapshot(Editor, n)].inbound # <<>>
  /\ \A k \in 1..Len(recs[getSnapshot(Editor, n)].inbound) :
       \E a \in 1..Len(edits) :
         /\ edits[a].prevNodeId = n
         /\ NodeReference(edits[a].containerId, edits[a].path, TRUE)
              = recs[getSnapshot(Editor, n)].inbound[k]
  /\ \E b \in 1..Len(edits) : edits[b].nextNodeId = n /\ edits[b].prevNodeId # n

\* C19: a node that loses its last inbound edge through one reference edit
\* and gains one through another edit of the same merge, in either order, is
\* not in the orphan set after the reference edits and is not deleted by the
\* merge
C19_RegainedNotOrphaned ==
  [][(Len(ops') = Len(ops) + 1) =>
       \A n \in DOMAIN Current :
         LosesAndGains(ReferenceEditsOf(ops'[Len(ops')]), n)
           => /\ n \notin OrphanedBy(ops'[Len(ops')])
              /\ n \in DOMAIN Current'
              /\ n \notin deleted']_vars

\* two fields exchanged their entities: one entity lost its edge before it
\* gained the other, the other one gained before it lost
C19_Witness ==
  /\ lastOp.valid
  /\ \E m, n \in (DOMAIN Current) \cap (DOMAIN lastOp.view.nodes) :
       /\ m # n
       /\ lastOp.view.nodes[m].inbound = <<NodeReference(QueryRootId, <<"viewer">>, TRUE)>>
       /\ lastOp.view.nodes[n].inbound = <<NodeReference(QueryRootId, <<"other">>, TRUE)>>
       /\ recs[Current[m]].inbound = <<NodeReference(QueryRootId, <<"other">>, TRUE)>>
       /\ recs[Current[n]].inbound = <<NodeReference(QueryRootId, <<"viewer">>, TRUE)>>

(***************************************************************************)
(* C20: the nodes of the root set                                            *)
(***************************************************************************)
\* C20: a merge never deletes a node of the root set, also when a reference
\* edit removes the last inbound edge that another node held to it
C20_RootNeverDeleted ==
  (lastOp.valid /\ pc # "raised") =>
    \A r \in RootSet :
      /\ r \notin deleted
      /\ r \in DOMAIN lastOp.view.nodes => r \in DOMAIN Current

(***************************************************************************)
(* C21: a payload without an identity, or null, at a position that holds an  *)
(* entity                                                                    *)
(***************************************************************************)
\* the entity whose value the node id of the editor holds at path
HeldAt(id, path) ==
  IF getSnapshot(Editor, id) = 0 THEN NoId
  ELSE entityIdForNode(objs, SlotAt(objs, get(Editor, id), path))

\* the reference edits recorded for the position path of the node id
EditsAt(edits, id, path) ==
  {k \in 1..Len(edits) : edits[k].containerId = id /\ edits[k].path = path}

\* after the step the node x has the edges it had before it
SameEdges(x) ==
  /\ x \in DOMAIN Current'
  /\ recs'[Current'[x]].inbound = recs[Current[x]].inbound
  /\ recs'[Current'[x]].outbound = recs[Current[x]].outbound

\* after the step the holder h has null at path and no edge pair with x there
Cleared(h, path, x) ==
  /\ h \in DOMAIN Current'
  /\ SlotAt(objs', recs'[Current'[h]].node, path) = Null
  /\ ~HasRef(recs'[Current'[h]].outbound, NodeReference(x, path, TRUE))
  /\ x \in DOMAIN Current' => ~HasRef(recs'[Current'[x]].inbound, NodeReference(h, path, TRUE))

\* C21 as stated: when a position holds the entity x and the payload there is truthy
\* without an entity id (input 5), no reference edit is recorded, the edges of
\* x stay and the payload's fields are merged into x; when the payload there
\* is null (inputs 4 and 8) the holder's value at the path becomes null and the
\* edge pair to x is removed
C21_KeepOrClearReference ==
  [][(Len(ops') = Len(ops) + 1) =>
       \A x \in DOMAIN Current :
         /\ (ops'[Len(ops')] = 5 /\ HeldAt(QueryRootId, <<"viewer">>) = x)
              => /\ EditsAt(ReferenceEditsOf(5), QueryRootId, <<"viewer">>) = {}
                 /\ SameEdges(x)
                 /\ SlotAt(objs', recs'[Current'[x]].node, <<"name">>) = Scalar("Baz")
                 /\ entityIdForNode(objs', SlotAt(objs', recs'[Current'[QueryRootId]].node,
                                                  <<"viewer">>)) = x
         /\ (ops'[Len(ops')] = 4 /\ HeldAt(QueryRootId, <<"viewer">>) = x)
              => Cleared(QueryRootId, <<"viewer">>, x)
         /\ (ops'[Len(ops')] = 8 /\ HeldAt(<<"1">>, <<"friend">>) = x)
              => Cleared(<<"1">>, <<"friend">>, x)]_vars

\* the holder h of the editor has exactly one outbound edge with this path
SingleEdgeAt(h, path) ==
  /\ getSnapshot(Editor, h) # 0
  /\ Cardinality({k \in 1..Len(recs[getSnapshot(Editor, h)].outbound) :
                    /\ recs[getSnapshot(Editor, h)].outbound[k].def
                    /\ recs[getSnapshot(Editor, h)].outbound[k].path = path}) = 1

\* C21 amended: the same, but a null payload clears the position only when the
\* holder has no second outbound edge with that path; the value of the
\* target of a second edge is written back to the position by the rebuild
C21_KeepOrClearSingleEdge ==
  [][(Len(ops') = Len(ops) + 1) =>
       \A x \in DOMAIN Current :
         /\ (ops'[Len(ops')] = 5 /\ HeldAt(QueryRootId, <<"viewer">>) = x)
              => /\ EditsAt(ReferenceEditsOf(5), QueryRootId, <<"viewer">>) = {}
                 /\ SameEdges(x)
                 /\ SlotAt(objs', recs'[Current'[x]].node, <<"name">>) = Scalar("Baz")
                 /\ entityIdForNode(objs', SlotAt(objs', recs'[Current'[QueryRootId]].node,
                                                  <<"viewer">>)) = x
         /\ (ops'[Len(ops')] = 4 /\ HeldAt(QueryRootId, <<"viewer">>) = x
               /\ SingleEdgeAt(QueryRootId, <<"viewer">>))
              => Cleared(QueryRootId, <<"viewer">>, x)
         /\ (ops'[Len(ops')] = 8 /\ HeldAt(<<"1">>, <<"friend">>) = x
               /\ SingleEdgeAt(<<"1">>, <<"friend">>))
              => Cleared(<<"1">>, <<"friend">>, x)]_vars

\* the payload {viewer: {name: "Baz"}} was merged where viewer held an entity
\* with another name
C21_Witness ==
  /\ lastOp.valid
  /\ ops # <<>>
  /\ ops[Len(ops)] = 5
  /\ \E x \in DOMAIN Current :
       /\ PrevNodeId(QueryRootId, <<"viewer">>) = x
       /\ Leaf(<<"name">>, "s", "Baz", NoId) \notin lastOp.view.nodes[x].content
       /\ SlotAt(objs, recs[Current[x]].node, <<"name">>) = Scalar("Baz")

LogOf(i) == mergePayload(Editor, Inputs[i].query, Inputs[i].payload).log

AtMostOnce(log) == \A j, k \in 1..Len(log) : log[j] = log[k] => j = k

\* C23: in every mergePayload call, cyclic graphs included, the inbound
\* rebuild puts each node on its queue at most once and the orphan collection
\* tombstones each node at most once, so both loops end
C23_LoopsVisitOnce ==
  [][(Len(ops') = Len(ops) + 1) => AtMostOnce(LogOf(ops'[Len(ops')]))]_vars

\* a merge over a parent whose entities reference each other in a cycle, in
\* which the rebuild went through both entities of the cycle
C23_Witness ==
  /\ lastOp.valid
  /\ \E a, b \in DOMAIN parent :
       /\ a # b
       /\ \E k \in 1..Len(ParentRecord(a).outbound) : ParentRecord(a).outbound[k].id = b
       /\ \E k \in 1..Len(ParentRecord(b).outbound) : ParentRecord(b).outbound[k].id = a
       /\ {a, b} \subseteq rebuiltNodeIds


(***************************************************************************)
(* C24: two reference edits of one merge for the same position               *)
(***************************************************************************)
\* lines 219-245: the pairs <<j, k>> of edits of one position with different
\* next nodes, k being the last edit recorded for the position
Conflicting(edits) ==
  {jk \in (1..Len(edits)) \X (1..Len(edits)) :
     /\ jk[1] < jk[2]
     /\ \A x \in EditsAt(edits, edits[jk[2]].containerId, edits[jk[2]].path) : x <= jk[2]
     /\ edits[jk[1]].containerId = edits[jk[2]].containerId
     /\ edits[jk[1]].path = edits[jk[2]].path
     /\ edits[jk[1]].nextNodeId # NoId
     /\ edits[jk[2]].nextNodeId # NoId
     /\ edits[jk[1]].nextNodeId # edits[jk[2]].nextNodeId}

\* after the step the holder has one outbound edge to t with `path` and t has
\* the matching inbound edge
LinkedAt(h, path, t) ==
  /\ t \in DOMAIN Current'
  /\ HasRef(recs'[Current'[h]].outbound, NodeReference(t, path, TRUE))
  /\ HasRef(recs'[Current'[t]].inbound, NodeReference(h, path, TRUE))

\* after the step the holder reads the node t at `path`
ReadsAt(h, path, t) ==
  /\ t \in DOMAIN Current'
  /\ SlotAt(objs', recs'[Current'[h]].node, path) = recs'[Current'[t]].node

\* C24: when two reference edits of one merge name the same holder and path
\* with different next nodes, after the merge the holder's value at the path
\* is the value of the target of the last of them, and the holder has an
\* outbound edge with that path to both targets, each matched by an inbound
\* edge of the target
C24_LastEditWins ==
  [][(Len(ops') = Len(ops) + 1) =>
       \A jk \in Conflicting(ReferenceEditsOf(ops'[Len(ops')])) :
         LET Holds(first, last) ==
               /\ last.containerId \in DOMAIN Current'
               /\ ReadsAt(last.containerId, last.path, last.nextNodeId)
               /\ LinkedAt(last.containerId, last.path, first.nextNodeId)
               /\ LinkedAt(last.containerId, last.path, last.nextNodeId)
         IN Holds(ReferenceEditsOf(ops'[Len(ops')])[jk[1]],
                  ReferenceEditsOf(ops'[Len(ops')])[jk[2]])]_vars

\* the edge half of C24 alone: both targets are linked to the holder with the
\* path
C24_BothEdges ==
  [][(Len(ops') = Len(ops) + 1) =>
       \A jk \in Conflicting(ReferenceEditsOf(ops'[Len(ops')])) :
         LET Holds(first, last) ==
               /\ last.containerId \in DOMAIN Current'
               /\ LinkedAt(last.containerId, last.path, first.nextNodeId)
               /\ LinkedAt(last.containerId, last.path, last.nextNodeId)
         IN Holds(ReferenceEditsOf(ops'[Len(ops')])[jk[1]],
                  ReferenceEditsOf(ops'[Len(ops')])[jk[2]])]_vars

\* a merge of the payload that gives entity 1 two different friends has left
\* entity 1 with two outbound edges that have the path friend
C24_Witness ==
  /\ lastOp.valid
  /\ ops # <<>>
  /\ ops[Len(ops)] = 7
  /\ <<"1">> \in DOMAIN Current
  /\ Cardinality({k \in 1..Len(recs[Current[<<"1">>]].outbound) :
                    recs[Current[<<"1">>]].outbound[k].path = <<"friend">>}) = 2


(***************************************************************************)
(* C25: an array payload shorter than the stored array of references         *)
(***************************************************************************)
\* the positions of the payload of the i-th input, resolved against the
\* editor as it is now
PositionsOf(i) ==
  PayloadPositions(Inputs[i].query.rootId, <<>>, Inputs[i].query.edgeMap,
                   Inputs[i].payload, Inputs[i].query.variables)

\* the number of elements the payload gives the array at path of the node id
LengthIn(positions, id, path) ==
  Cardinality({q \in positions :
                 /\ q[1] = id
                 /\ Len(q[2]) = Len(path) + 1
                 /\ SubSeq(q[2], 1, Len(path)) = path})

\* the path leads into the array at `path`, at or past the index n (IndexOf
\* counts from 1)
PastEnd(p, path, n) ==
  /\ Len(p) > Len(path)
  /\ SubSeq(p, 1, Len(path)) = path
  /\ IsIndex(p[Len(path) + 1])
  /\ IndexOf(p[Len(path) + 1]) > n

\* the outbound edges, as the editor has them now, that lead from the holder
\* into the array at `path`, at or past the index n
Dropped(h, path, n) ==
  IF getSnapshot(Editor, h) = 0 THEN {}
  ELSE {recs[getSnapshot(Editor, h)].outbound[k] :
          k \in {x \in 1..Len(recs[getSnapshot(Editor, h)].outbound) :
                   /\ recs[getSnapshot(Editor, h)].outbound[x].def
                   /\ PastEnd(recs[getSnapshot(Editor, h)].outbound[x].path, path, n)}}

\* every inbound edge the node t has now is one of the dropped edges of h
OnlyHeldBy(t, h, dropped) ==
  /\ getSnapshot(Editor, t) # 0
  /\ \A k \in 1..Len(recs[getSnapshot(Editor, t)].inbound) :
       /\ recs[getSnapshot(Editor, t)].inbound[k].id = h
       /\ \E e \in dropped : e.id = t /\ e.path = recs[getSnapshot(Editor, t)].inbound[k].path

\* C25: when a merge gives an array of n elements at a position whose stored
\* array holds entity references past n, after the merge the holder has no
\* outbound edge with a path past the end of the array, the dropped targets
\* have lost the matching inbound edges, and a dropped target without another
\* inbound edge is gone
C25_ShorterArrayReleases ==
  [][(Len(ops') = Len(ops) + 1) =>
       \A pos \in {q \in PositionsOf(ops'[Len(ops')]) : q[3] = "a"} :
         LET Released(h, path, n) ==
               /\ h \in DOMAIN Current'
               /\ \A k \in 1..Len(recs'[Current'[h]].outbound) :
                    ~PastEnd(recs'[Current'[h]].outbound[k].path, path, n)
               /\ \A e \in Dropped(h, path, n) :
                    /\ e.id \in DOMAIN Current' =>
                         ~HasRef(recs'[Current'[e.id]].inbound, NodeReference(h, e.path, TRUE))
                    /\ OnlyHeldBy(e.id, h, Dropped(h, path, n)) => e.id \notin DOMAIN Current'
         IN Released(pos[1], pos[2], LengthIn(PositionsOf(ops'[Len(ops')]), pos[1], pos[2]))]_vars

\* the array of two entities was cut to its first element
C25_Witness ==
  /\ lastOp.valid
  /\ ops # <<>>
  /\ ops[Len(ops)] = 28
  /\ QueryRootId \in DOMAIN lastOp.view.nodes
  /\ Leaf(<<"friends", "1">>, "ref", "", <<"2">>) \in lastOp.view.nodes[QueryRootId].content


(***************************************************************************)
(* C26: the result of a commit and later merges of the same editor           *)
(***************************************************************************)
\* lines 309-312: the last commit result was returned by the current editor
OwnResult == result.valid /\ result.editedNodeIds = editedNodeIds

\* the step leaves the records and values of the commit result as they read
ResultNodesKept ==
  \A id \in DOMAIN result.snapshot :
    RecordView(objs', recs'[result.snapshot[id]], id)
      = RecordView(objs, recs[result.snapshot[id]], id)

\* the step leaves the edited set of the commit result as it reads
ResultEditedKept ==
  Members(sets'[result.editedNodeIds]) = Members(sets[result.editedNodeIds])

\* C26: a mergePayload call on an editor that has committed changes nothing
\* a reader of the commit result sees: the values, the inbound and outbound
\* lists of its node records and its edited set stay as they were
C26_CommitResultFrozen ==
  [][(Len(ops') = Len(ops) + 1 /\ OwnResult) => (ResultNodesKept /\ ResultEditedKept)]_vars

\* the two halves of C26 alone: the node records, then the edited set
C26_NodesFrozen ==
  [][(Len(ops') = Len(ops) + 1 /\ OwnResult) => ResultNodesKept]_vars

C26_EditedFrozen ==
  [][(Len(ops') = Len(ops) + 1 /\ OwnResult) => ResultEditedKept]_vars

\* a merge was made on an editor after its commit
C26_Witness ==
  /\ OwnResult
  /\ lastOp.valid
  /\ pc = "open"
  /\ ops # <<>>
  /\ View(Editor) # [nodes |-> [id \in DOMAIN result.snapshot |->
                                  RecordView(objs, recs[result.snapshot[id]], id)],
                      edited |-> Members(sets[result.editedNodeIds])]


(***************************************************************************)
(* C27: the edited set and the new-node table                                *)
(***************************************************************************)
\* lines 58-69: the keys of _newNodes and the members of _editedNodeIds
StagedIds == DOMAIN newNodes
EditedIds == Members(sets[editedNodeIds])

\* the first half of C27 alone: every edited id is staged, as a record or as
\* a tombstone
C27_EditedStaged == EditedIds \subseteq StagedIds

\* the inbound or the outbound list of the node id reads differently after
\* the step
EdgesChanged(id) ==
  LET Before(a) == IF a = 0 THEN NoRecord ELSE recs[a]
      After(a) == IF a = 0 THEN NoRecord ELSE recs'[a]
      Differ(x, y) == x.inbound # y.inbound \/ x.outbound # y.outbound
  IN Differ(Before(getSnapshot(Editor, id)), After(newNodes'[id]))

\* C27: after every step of a transaction every edited id is staged in the
\* new-node table, and an id that a merge stages without editing it is a node
\* whose edges the merge changed or whose value the rebuild republished
C27_StagedButNotEdited ==
  [][/\ C27_EditedStaged'
     /\ (Len(ops') = Len(ops) + 1) =>
          /\ rebuiltNodeIds' \subseteq StagedIds'
          /\ \A id \in (StagedIds' \ StagedIds) \ EditedIds' :
               EdgesChanged(id) \/ id \in rebuiltNodeIds']_vars

\* a merge has staged a node that is not edited
C27_Witness ==
  /\ lastOp.valid
  /\ StagedIds \ EditedIds # {}
  /\ EditedIds # {}

====
